---- MODULE Spec2Model ----
(***************************************************************************)
(* npblob (typescript/src/index.ts): the blob codec (encode / decode), the *)
(* incremental reassembler (splitChunks, parseFromUint8ArrayChunks) and    *)
(* the streaming driver (streamFromReadableStream).                        *)
(*                                                                         *)
(* A byte is a number in 0..255, a Uint8Array a sequence of bytes, the     *)
(* chunk queue a sequence of such sequences.  A typed array is the         *)
(* sequence of its elements; float elements are carried as their bit       *)
(* patterns.  The host is little-endian, as the repository's test vectors  *)
(* assume (encode without the second argument yields little-endian         *)
(* bytes).                                                                 *)
(***************************************************************************)
EXTENDS Integers, Sequences, FiniteSets, TLC

VARIABLES
  \* ---- streaming driver (streamFromReadableStream) ----
  items,          \* the record sequence whose encoding the source carries
  source,         \* bytes the source has not delivered yet
  sent,           \* bytes the source has delivered so far
  chunks,         \* the chunk queue (also the queue splitChunks works on)
  nes,            \* decoded records not yet handed to the controller
  streamDone,     \* the source reported done
  pc,             \* where yieldArrays stands: none, await, fulfilled, rejected
  ctrl,           \* the output ReadableStream's controller and reader state
  emitted,        \* every record passed to controller.enqueue, in order
  \* ---- take-L primitive (splitChunks) ----
  take,           \* the last splitChunks call: length, outcome, queue before
  \* ---- one-shot codec (encode / decode) ----
  littleEndian,   \* the second argument of encode
  buffer,         \* the buffer handed to decode
  encoded,        \* outcome of encode(items, littleEndian)
  decoded         \* outcome of decode(buffer)

streamVars == <<source, sent, nes, streamDone, pc, ctrl, emitted>>
codecVars == <<littleEndian, buffer, encoded, decoded>>
vars == <<items, source, sent, chunks, nes, streamDone, pc, ctrl, emitted,
          take, littleEndian, buffer, encoded, decoded>>

(***************************************************************************)
(* Bytes and typed arrays                                                  *)
(***************************************************************************)
RECURSIVE Pow(_, _)
Pow(b, e) == IF e = 0 THEN 1 ELSE b * Pow(b, e - 1)

\* F applied to the value of e, with e evaluated once.
Bind(e, F(_)) == CHOOSE out \in {F(v) : v \in {e}} : TRUE

\* The concatenation of a sequence of sequences (by halves, so that the
\* recursion stays shallow on long sequences).
RECURSIVE Concat(_)
Concat(ss) ==
  IF Len(ss) = 0 THEN <<>>
  ELSE IF Len(ss) = 1 THEN ss[1]
  ELSE Concat(SubSeq(ss, 1, Len(ss) \div 2))
       \o Concat(SubSeq(ss, Len(ss) \div 2 + 1, Len(ss)))

\* Product with 0 for the empty shape (reduce without its initial value 1
\* counted).
RECURSIVE Product_zeroEmpty(_)
Product_zeroEmpty(s) == IF s = <<>> THEN 0 ELSE Head(s) * Product_zeroEmpty(Tail(s))

RECURSIVE Product(_)
Product(s) == IF s = <<>> THEN 1 ELSE Head(s) * Product(Tail(s))

\* Math.max(...s) of a non-empty s
MaxOf(s) == CHOOSE m \in {s[k] : k \in 1..Len(s)} : \A k \in 1..Len(s) : s[k] <= m

\* A store into a Uint8Array: the value modulo 256.
ToUint8(v) == v % 256

\* The n bytes of element v in little-endian (host) order, low byte first
\* (two's complement for a negative v).
RECURSIVE LEBytes(_, _)
LEBytes(v, n) == IF n = 0 THEN <<>> ELSE <<v % 256>> \o LEBytes(v \div 256, n - 1)

\* The unsigned value of a little-endian byte group.
RECURSIVE FromLE(_)
FromLE(bs) == IF bs = <<>> THEN 0 ELSE Head(bs) + 256 * FromLE(Tail(bs))

\* The unsigned value of a big-endian byte group.
FromBE(bs) == FromLE([j \in 1..Len(bs) |-> bs[Len(bs) + 1 - j]])

\* view.getUint32(0, littleEndian) / view.getUint16(0, littleEndian)
GetUint(bs, le) == IF le THEN FromLE(bs) ELSE FromBE(bs)

\* The bytes of a typed array whose elements take n bytes each (its .buffer):
\* the n low bytes of each element, which is the element as the array stores
\* it (new Uint16Array([65536]) holds 0).
ElemBytes(elems, n) == Concat([k \in 1..Len(elems) |-> LEBytes(elems[k], n)])

\* arr[idx] for a zero-based index; a read past the end yields undefined,
\* which a Uint8Array stores as 0.
At(arr, idx) == IF idx >= 0 /\ idx < Len(arr) THEN arr[idx + 1] ELSE 0

(***************************************************************************)
(* getSystemEndianness: "<" on the little-endian host.                     *)
(***************************************************************************)
SYS_ENDIAN == "<"

(***************************************************************************)
(* castFloat16.  The value returned is a float32 whose 13 low fraction     *)
(* bits are zero; it is carried as the float32 bit pattern without those   *)
(* bits: sign * 2^18 + biased exponent * 2^10 + the 10 high fraction bits. *)
(***************************************************************************)
RECURSIVE TopBit(_)
TopBit(f) == IF f <= 1 THEN 0 ELSE 1 + TopBit(f \div 2)

castFloat16(int16) ==
  LET exponent == (int16 \div 1024) % 32
      fraction == int16 % 1024
      sign == (int16 \div 32768) % 2
  IN IF exponent # 0
     THEN IF exponent = 31
          THEN IF fraction # 0 THEN 261632                \* NaN
               ELSE sign * 262144 + 261120                \* +-Infinity
          ELSE sign * 262144 + (exponent + 112) * 1024 + fraction
     ELSE IF fraction = 0 THEN sign * 262144
          ELSE LET p == TopBit(fraction)
               IN sign * 262144 + (p + 103) * 1024
                  + (fraction - Pow(2, p)) * Pow(2, 10 - p)

(***************************************************************************)
(* __DTYPE_FLAGS_DECODING / __DTYPE_FLAGS_ENCODING / DTypeMap              *)
(***************************************************************************)
DTYPE_FLAGS_DECODING == {1, 2, 3, 5, 6, 7, 9, 10, 11}

\* dSizeOf with every element one byte wide.
dSizeOf_one(dType) == 1

dSizeOf(dType) ==
  CASE dType \in {1, 5} -> 1
    [] dType \in {2, 6, 9} -> 2
    [] dType \in {3, 7, 10} -> 4
    [] dType = 11 -> 8

typOf(dType) ==
  CASE dType = 1 -> "uint8" [] dType = 2 -> "uint16" [] dType = 3 -> "uint32"
    [] dType = 5 -> "int8" [] dType = 6 -> "int16" [] dType = 7 -> "int32"
    [] dType = 9 -> "float32" [] dType = 10 -> "float32" [] dType = 11 -> "float64"

\* 0 stands for the undefined that a missing key yields.
DTYPE_FLAGS_ENCODING(name) ==
  CASE name = "uint8" -> 1 [] name = "uint16" -> 2 [] name = "uint32" -> 3
    [] name = "int8" -> 5 [] name = "int16" -> 6 [] name = "int32" -> 7
    [] name = "float16" -> 9 [] name = "float32" -> 10 [] name = "float64" -> 11
    [] OTHER -> 0

\* BYTES_PER_ELEMENT of the typed array DTypeMap gives a dtype name.
BYTES_PER_ELEMENT(name) ==
  CASE name \in {"uint8", "int8"} -> 1
    [] name \in {"uint16", "int16"} -> 2
    [] name \in {"uint32", "int32", "float16", "float32"} -> 4
    [] name = "float64" -> 8

\* new ArrayType(chunk.buffer), or parseFloat16ArrayBuffer(chunk.buffer) for 9.
ArrayOf(dType, bytes) ==
  LET n == dSizeOf(dType)
      raw == [k \in 1..(Len(bytes) \div n) |-> FromLE(SubSeq(bytes, (k - 1) * n + 1, k * n))]
  IN [k \in 1..Len(raw) |->
        \* a signed element with its top bit set
        IF dType \in {5, 6, 7} /\ raw[k] \div Pow(256, n - 1) >= 128
        THEN raw[k] - Pow(256, n)
        ELSE IF dType = 9 THEN castFloat16(raw[k]) ELSE raw[k]]

(***************************************************************************)
(* Extra payloads: null, raw bytes, or a JSON value.                       *)
(***************************************************************************)
NoExtra == [kind |-> "null", bytes |-> <<>>, json |-> ""]
RawExtra(bs) == [kind |-> "raw", bytes |-> bs, json |-> ""]
JsonExtra(v) == [kind |-> "json", bytes |-> <<>>, json |-> v]

\* The UTF-8 bytes of {"min":1.1,"max":6.6}
MinMaxText ==
  <<123, 34, 109, 105, 110, 34, 58, 49, 46, 49, 44,
    34, 109, 97, 120, 34, 58, 54, 46, 54, 125>>

\* JSON.stringify followed by TextEncoder.encode, on the JSON values used:
\* {} is "{}", [] is "[]" and { min: 1.1, max: 6.6 } is the text above.
JSON_stringify(v) ==
  CASE v = "emptyObject" -> <<123, 125>>
    [] v = "emptyArray" -> <<91, 93>>
    [] v = "minmax" -> MinMaxText

\* JSON.parse of TextDecoder.decode(bytes); anything else built from the
\* bytes used here is no JSON text and throws a SyntaxError.
JSON_parse(bs) ==
  IF bs = <<123, 125>> THEN [ok |-> TRUE, value |-> "emptyObject"]
  ELSE IF bs = <<91, 93>> THEN [ok |-> TRUE, value |-> "emptyArray"]
  ELSE IF bs = MinMaxText THEN [ok |-> TRUE, value |-> "minmax"]
  ELSE [ok |-> FALSE, value |-> ""]

(***************************************************************************)
(* splitChunks(chunks, length)                                             *)
(***************************************************************************)
\* splitLoop with the straddling chunk left whole in the queue (the
\* assignment chunks[i] = chunk.slice(splitChunkAt) dropped).
RECURSIVE splitLoop_keepChunk(_, _, _, _, _, _)
splitLoop_keepChunk(cs, length, i, poppedChunks, accumelatedLength, splitChunksAt) ==
  IF i > Len(cs)
  THEN [chunks |-> cs, popped |-> poppedChunks, acc |-> accumelatedLength,
        at |-> splitChunksAt]
  ELSE IF accumelatedLength + Len(cs[i]) <= length
       THEN splitLoop_keepChunk(cs, length, i + 1, Append(poppedChunks, cs[i]),
                                accumelatedLength + Len(cs[i]), i)
       ELSE IF length - accumelatedLength > 0
            THEN [chunks |-> cs,
                  popped |-> Append(poppedChunks, SubSeq(cs[i], 1, length - accumelatedLength)),
                  acc |-> length, at |-> splitChunksAt]
            ELSE [chunks |-> cs, popped |-> poppedChunks,
                  acc |-> accumelatedLength, at |-> splitChunksAt]

RECURSIVE splitLoop(_, _, _, _, _, _)
splitLoop(cs, length, i, poppedChunks, accumelatedLength, splitChunksAt) ==
  IF i > Len(cs)
  THEN [chunks |-> cs, popped |-> poppedChunks, acc |-> accumelatedLength,
        at |-> splitChunksAt]
  ELSE LET chunk == cs[i]
           chunkLength == Len(chunk)
       IN IF accumelatedLength + chunkLength <= length
          THEN splitLoop(cs, length, i + 1, Append(poppedChunks, chunk),
                         accumelatedLength + chunkLength, i)
          ELSE LET splitChunkAt == length - accumelatedLength
               IN IF splitChunkAt > 0
                  THEN [chunks |-> [cs EXCEPT ![i] = SubSeq(chunk, splitChunkAt + 1, chunkLength)],
                        popped |-> Append(poppedChunks, SubSeq(chunk, 1, splitChunkAt)),
                        acc |-> length, at |-> splitChunksAt]
                  ELSE [chunks |-> cs, popped |-> poppedChunks,
                        acc |-> accumelatedLength, at |-> splitChunksAt]

\* splitChunks with chunks.splice(0, splitChunksAt) moved before the
\* insufficient-data check.
splitChunks_spliceFirst(cs, length) ==
  Bind(splitLoop(cs, length, 1, <<>>, 0, 0), LAMBDA r :
    [ok |-> r.acc >= length,
     bytes |-> IF r.acc < length THEN <<>> ELSE Concat(r.popped),
     chunks |-> SubSeq(r.chunks, r.at + 1, Len(r.chunks))])

\* ok = FALSE is the IncompleteChunksError; chunks is the queue after the call.
splitChunks(cs, length) ==
  Bind(splitLoop(cs, length, 1, <<>>, 0, 0), LAMBDA r :
    IF r.acc < length
    THEN [ok |-> FALSE, bytes |-> <<>>, chunks |-> r.chunks]
    ELSE [ok |-> TRUE, bytes |-> Concat(r.popped),
          chunks |-> SubSeq(r.chunks, r.at + 1, Len(r.chunks))])

(***************************************************************************)
(* parseFromUint8ArrayChunks(chunks)                                       *)
(*                                                                         *)
(* The result is [thrown, result, chunks]: thrown = TRUE when an error     *)
(* other than IncompleteChunksError leaves the function, result the        *)
(* records returned, chunks the queue as the call leaves it.               *)
(***************************************************************************)
NDArrayAndExtra(shape, typ, arr, extra) ==
  [shape |-> shape, dType |-> typ, data |-> arr, extra |-> extra]

\* return result (the loop ended or hit a break)
parseReturn(cs, result) == [thrown |-> FALSE, result |-> result, chunks |-> cs]

\* parseThrow with the catch block swallowing every error, not only
\* IncompleteChunksError.
parseThrow_swallow(cs) == [thrown |-> FALSE, result |-> <<>>, chunks |-> cs]

\* throw e, for an e that is no IncompleteChunksError
parseThrow(cs) == [thrown |-> TRUE, result |-> <<>>, chunks |-> cs]

\* parseCatchIncomplete with the catch block rethrowing IncompleteChunksError
\* as it does every other error.
parseCatchIncomplete_rethrow(cs, tempChunks, result) ==
  [thrown |-> TRUE, result |-> <<>>, chunks |-> cs]

\* catch (e) { if (e instanceof IncompleteChunksError) chunks.unshift(...tempChunks) }
parseCatchIncomplete(cs, tempChunks, result) ==
  [thrown |-> FALSE, result |-> result, chunks |-> tempChunks \o cs]

\* shapeOf refusing a dimension count of zero.
shapeOf_rejectEmpty(bytes, width, n, sameEndian) ==
  IF n = 0 THEN [ok |-> FALSE, shape |-> <<>>]
  ELSE [ok |-> sameEndian,
        shape |-> [k \in 1..(Len(bytes) \div width) |->
                     FromLE(SubSeq(bytes, (k - 1) * width + 1, k * width))]]

\* The shape read from the shape bytes: n entries of `width` bytes.  With the
\* record's byte order equal to the host's the bytes are viewed in place; the
\* other branch calls DataView's getUint16 / getUint32 detached from its
\* view, which throws a TypeError on the first entry.
shapeOf(bytes, width, n, sameEndian) ==
  IF sameEndian
  THEN [ok |-> TRUE,
        shape |-> [k \in 1..(Len(bytes) \div width) |->
                     FromLE(SubSeq(bytes, (k - 1) * width + 1, k * width))]]
  ELSE IF n > 0 THEN [ok |-> FALSE, shape |-> <<>>]
       ELSE [ok |-> TRUE, shape |-> <<>>]

RECURSIVE parseLoop(_, _, _)
parseLoop(cs, tempChunks, result) ==
  IF Len(cs) = 0 THEN parseReturn(cs, result) ELSE
  Bind(splitChunks(cs, 2), LAMBDA hd :
  IF ~hd.ok THEN parseCatchIncomplete(hd.chunks, tempChunks, result) ELSE
  LET t1 == Append(tempChunks, hd.bytes)
      \* const [i0, i1] = chunk, a Uint8Array: both are in 0..255
      i0 == hd.bytes[1]
      i1 == hd.bytes[2]
      endian == IF i0 > 0 THEN "<" ELSE ">"
      le == i0 > 0
      dType == IF i0 > 0 THEN i0 ELSE -i0
  IN
  IF ~(i0 > 0 \/ i0 < 0) THEN parseThrow(hd.chunks) ELSE
  IF dType = 0 \/ dType >= 12 THEN parseThrow(hd.chunks) ELSE
  \* destructuring __DTYPE_FLAGS_DECODING[dType] of a missing key throws
  IF dType \notin DTYPE_FLAGS_DECODING THEN parseThrow(hd.chunks) ELSE
  LET dSize == dSizeOf(dType)
      typ == typOf(dType)
      sameEndian == endian = SYS_ENDIAN
      width == IF i1 > 0 THEN 2 ELSE 4
      n == IF i1 > 0 THEN i1 ELSE -i1
      d0 == n * width
  IN
  Bind(splitChunks(hd.chunks, d0), LAMBDA sh :
  IF ~sh.ok THEN parseCatchIncomplete(sh.chunks, t1, result) ELSE
  Bind(shapeOf(sh.bytes, width, n, sameEndian), LAMBDA sp :
  IF ~sp.ok THEN parseThrow(sh.chunks) ELSE
  LET t2 == Append(t1, sh.bytes)
      shape == sp.shape
      e0 == Product(shape) * dSize
  IN
  Bind(splitChunks(sh.chunks, e0), LAMBDA da :
  IF ~da.ok THEN parseCatchIncomplete(da.chunks, t2, result) ELSE
  Bind(NDArrayAndExtra(shape, typ, ArrayOf(dType, da.bytes), NoExtra), LAMBDA ne :
  LET t3 == Append(t2, da.bytes) IN
  IF Len(da.chunks) = 0
  THEN parseReturn(da.chunks, Append(result, ne))
  ELSE
  Bind(splitChunks(da.chunks, 1), LAMBDA fl :
  IF ~fl.ok THEN parseCatchIncomplete(fl.chunks, t3, result) ELSE
  LET t4 == Append(t3, fl.bytes)
      eFlag == fl.bytes[1]
  IN
  IF eFlag = 0
  THEN \* continue: tempChunks keeps the chunks of the record just pushed
       parseLoop(fl.chunks, t4, Append(result, ne))
  ELSE
  Bind(splitChunks(fl.chunks, 4), LAMBDA ln :
  IF ~ln.ok THEN parseCatchIncomplete(ln.chunks, t4, result) ELSE
  LET t5 == Append(t4, ln.bytes)
      eLen == GetUint(ln.bytes, le)
  IN
  Bind(splitChunks(ln.chunks, eLen), LAMBDA ex :
  IF ~ex.ok THEN parseCatchIncomplete(ex.chunks, t5, result) ELSE
  IF eFlag \notin {1, 2} THEN parseThrow(ex.chunks) ELSE
  IF eFlag = 2 /\ ~JSON_parse(ex.bytes).ok THEN parseThrow(ex.chunks) ELSE
  LET extra == IF eFlag = 1 THEN RawExtra(ex.bytes)
               ELSE JsonExtra(JSON_parse(ex.bytes).value)
      result2 == Append(result, [ne EXCEPT !.extra = extra])
  IN
  \* tempChunks.length = 0
  IF Len(ex.chunks) > 0 /\ Len(ex.chunks[1]) > 0 /\ ex.chunks[1][1] = 0
  THEN parseLoop(splitChunks(ex.chunks, 1).chunks, <<>>, result2)
  ELSE parseReturn(ex.chunks, result2)))))))))

parseFromUint8ArrayChunks(cs) ==
  IF Len(cs) = 0 THEN parseReturn(cs, <<>>) ELSE parseLoop(cs, <<>>, <<>>)

(***************************************************************************)
(* decode(buffer)                                                          *)
(***************************************************************************)
decode(buf) == parseFromUint8ArrayChunks(<<buf>>)

(***************************************************************************)
(* encode(items, littleEndian)                                             *)
(*                                                                         *)
(* The second argument is "undefined", "true" or "false".  The result is   *)
(* [ok, blob]; ok = FALSE when encode throws.                              *)
(***************************************************************************)
\* SetUint32 with the byte order inverted.
SetUint32_swapped(v, le) ==
  IF le THEN [j \in 1..4 |-> LEBytes(v, 4)[5 - j]] ELSE LEBytes(v, 4)

\* The uint32 written by extraLengthArray.setUint32(0, extraLength, le).
SetUint32(v, le) ==
  IF le THEN LEBytes(v, 4) ELSE [j \in 1..4 |-> LEBytes(v, 4)[5 - j]]

\* The bytes of the extra payload and its extraEncoding.
extraArrayOf(extra) ==
  IF extra.kind = "raw" THEN extra.bytes ELSE JSON_stringify(extra.json)

extraEncodingOf(extra) ==
  IF extra.kind = "null" THEN 0 ELSE IF extra.kind = "raw" THEN 1 ELSE 2

\* if (i1 > 128) throw
MaxDims == 128

\* itemThrows refusing a shape of MaxDims dimensions as well.
itemThrows_atLimit(item) ==
  \/ DTYPE_FLAGS_ENCODING(item.dType) = 0
  \/ Len(item.shape) >= MaxDims
  \/ (Len(item.shape) > 0 /\ MaxOf(item.shape) \div 65536 >= 65536)

\* Whether the first loop of encode throws on this item (maxDim >= 2^32 is
\* written with quotients).
itemThrows(item) ==
  \/ DTYPE_FLAGS_ENCODING(item.dType) = 0
  \/ Len(item.shape) > MaxDims
  \/ (Len(item.shape) > 0 /\ MaxOf(item.shape) \div 65536 >= 65536)

\* bigShapeOf with the 16-bit form chosen for every shape.
bigShapeOf_never(item) == FALSE

\* bigShape: Math.max(...shape) of an empty shape is -Infinity.
bigShapeOf(item) == Len(item.shape) > 0 /\ MaxOf(item.shape) >= 65536

\* The element-wise byte swap of the second loop: count elements of `step`
\* bytes are written from `offset` on, each byte read from the source
\* array at the BLOB's offset.
swapped(arrayBuffer, step, count, offset) ==
  Concat([i \in 1..count |->
            [j \in 1..step |-> At(arrayBuffer, offset + (i - 1) * step + step - (j - 1) - 1)]])

\* componentBytes with the 0x00 written before every record, the first
\* included (host byte order only).
componentBytes_sepAll(item, i, offset, sameEndian, le) ==
  <<0, ToUint8(DTYPE_FLAGS_ENCODING(item.dType)),
    ToUint8(IF bigShapeOf(item) THEN -Len(item.shape) ELSE Len(item.shape))>>
  \o ElemBytes(item.shape, IF bigShapeOf(item) THEN 4 ELSE 2)
  \o ElemBytes(item.data, BYTES_PER_ELEMENT(item.dType))
  \o (IF extraEncodingOf(item.extra) > 0
      THEN <<extraEncodingOf(item.extra)>>
           \o SetUint32(Len(extraArrayOf(item.extra)), le)
           \o extraArrayOf(item.extra)
      ELSE <<>>)

\* One round of the second loop: the bytes record i adds to the blob, whose
\* length so far is `offset`.
componentBytes(item, i, offset, sameEndian, le) ==
  LET dType == DTYPE_FLAGS_ENCODING(item.dType)
      i0 == IF le THEN dType ELSE -dType
      n == Len(item.shape)
      i1 == IF bigShapeOf(item) THEN -n ELSE n
      shapeStep == IF bigShapeOf(item) THEN 4 ELSE 2
      shapeArrayBuffer == ElemBytes(item.shape, shapeStep)
      dataStep == BYTES_PER_ELEMENT(item.dType)
      dataBuffer == ElemBytes(item.data, dataStep)
      sep == IF i > 1 THEN <<0>> ELSE <<>>
      header == <<ToUint8(i0), ToUint8(i1)>>
      o1 == offset + Len(sep) + 2
      shapeOut == IF sameEndian THEN shapeArrayBuffer
                  ELSE swapped(shapeArrayBuffer, shapeStep, n, o1)
      o2 == o1 + Len(shapeOut)
      dataOut == IF sameEndian THEN dataBuffer
                 ELSE swapped(dataBuffer, dataStep, Len(item.data), o2)
      extraEncoding == extraEncodingOf(item.extra)
      extraOut == IF extraEncoding > 0
                  THEN <<extraEncoding>>
                       \o SetUint32(Len(extraArrayOf(item.extra)), le)
                       \o extraArrayOf(item.extra)
                  ELSE <<>>
  IN sep \o header \o shapeOut \o dataOut \o extraOut

RECURSIVE encodeLoop(_, _, _, _, _)
encodeLoop(its, i, blob, sameEndian, le) ==
  IF i > Len(its) THEN blob
  ELSE encodeLoop(its, i + 1,
                  blob \o componentBytes(its[i], i, Len(blob), sameEndian, le),
                  sameEndian, le)

encode(its, leArg) ==
  LET le == IF leArg = "undefined" THEN SYS_ENDIAN = "<" ELSE leArg = "true"
      sameEndian == leArg = "undefined" \/ (le = (SYS_ENDIAN = "<"))
  IN IF \E k \in 1..Len(its) : itemThrows(its[k])
     THEN [ok |-> FALSE, blob |-> <<>>]
     \* new Uint8Array(blobLength + numBlobComponents - 1) of no items is
     \* new Uint8Array(-1), a RangeError
     ELSE IF Len(its) = 0 THEN [ok |-> FALSE, blob |-> <<>>]
     ELSE [ok |-> TRUE, blob |-> encodeLoop(its, 1, <<>>, sameEndian, le)]

(***************************************************************************)
(* Bounds and the inputs drawn from them                                   *)
(***************************************************************************)
MaxRecords == 2      \* records in one record sequence
MaxChunkLen == 2     \* bytes in one chunk handed to the take-L primitive
MaxQueue == 2        \* chunks arriving between two take-L calls
MaxTake == 4         \* the length asked of the take-L primitive
MaxCalls == 2        \* take-L calls between two arrivals
MaxTail == 4         \* bytes following an appended extra flag
MaxEmitted == 3      \* records enqueued before the stream is left alone
MaxJunk == 2         \* bytes following a header with an invalid dtype code

\* Three valid records: no extra, a JSON extra, a raw-bytes extra on a
\* 0-dimensional array.
RecordPool ==
  { [shape |-> <<1>>, dType |-> "uint8", data |-> <<7>>, extra |-> NoExtra],
    [shape |-> <<2>>, dType |-> "uint8", data |-> <<1, 2>>,
     extra |-> JsonExtra("emptyObject")],
    [shape |-> <<>>, dType |-> "uint16", data |-> <<513>>,
     extra |-> RawExtra(<<9>>)] }

RecordSeqs(lo) == UNION {[1..n -> RecordPool] : n \in lo..MaxRecords}

BytesUpTo(alphabet, lo, hi) == UNION {[1..n -> alphabet] : n \in lo..hi}

\* Values of the variables a specification does not use.
TakeIdle == [calls |-> 0, length |-> 0, ok |-> TRUE, bytes |-> <<>>,
             before |-> <<>>, after |-> <<>>, failures |-> 0]
NotEncoded == [done |-> FALSE, ok |-> FALSE, blob |-> <<>>]
NotDecoded == [done |-> FALSE, thrown |-> FALSE, result |-> <<>>]
NoBuffer == [bytes |-> <<>>, origin |-> "none"]
CtrlIdle == [started |-> FALSE, state |-> "readable", closeRequested |-> FALSE,
             pulling |-> FALSE, pullAgain |-> FALSE, queue |-> <<>>,
             readRequests |-> 0, delivered |-> <<>>, readerDone |-> FALSE,
             readerError |-> FALSE, overlapped |-> FALSE]

StreamIdle ==
  /\ source = <<>> /\ sent = <<>> /\ nes = <<>> /\ streamDone = FALSE
  /\ pc = "none" /\ ctrl = CtrlIdle /\ emitted = <<>>

CodecIdle ==
  /\ littleEndian = "undefined" /\ buffer = NoBuffer
  /\ encoded = NotEncoded /\ decoded = NotDecoded

(***************************************************************************)
(* SpecSplit: the take-L primitive on a queue that chunks arrive on.       *)
(***************************************************************************)
InitSplit ==
  /\ chunks = <<>> /\ take = TakeIdle /\ items = <<>>
  /\ StreamIdle /\ CodecIdle

\* chunks.push(chunk): a chunk arrives (an empty one is what a rollback of a
\* zero-length field leaves in the queue).
Arrive ==
  \E c \in BytesUpTo({1, 2}, 0, MaxChunkLen) :
    /\ Len(chunks) < MaxQueue
    /\ chunks' = Append(chunks, c)
    /\ take' = TakeIdle
    /\ UNCHANGED <<items, streamVars, codecVars>>

\* splitChunks(chunks, length)
Take ==
  \E length \in 0..MaxTake :
    /\ take.calls < MaxCalls
    /\ LET r == splitChunks(chunks, length)
       IN /\ chunks' = r.chunks
          /\ take' = [calls |-> take.calls + 1, length |-> length, ok |-> r.ok,
                      bytes |-> r.bytes, before |-> chunks, after |-> r.chunks,
                      failures |-> IF r.ok THEN 0
                                   ELSE IF take.calls > 0 /\ ~take.ok
                                           /\ take.length = length
                                        THEN take.failures + 1 ELSE 1]
    /\ UNCHANGED <<items, streamVars, codecVars>>

NextSplit == Arrive \/ Take

SpecSplit == InitSplit /\ [][NextSplit]_vars

\* Header bytes 0 whose magnitude, read as a signed byte, is 0, 4, 8 or at
\* least 12: 0, 4, 8, 12, 127 and -128, -12, -8, -4.
BadDTypeBytes == {0, 4, 8, 12, 127, 128, 244, 248, 252}

\* encode([r]) of each record of a sequence, joined by single 0x00 bytes.
RECURSIVE JoinBlobs(_, _)
JoinBlobs(its, leArg) ==
  IF Len(its) = 1 THEN encode(its, leArg).blob
  ELSE encode(<<Head(its)>>, leArg).blob \o <<0>> \o JoinBlobs(Tail(its), leArg)

(***************************************************************************)
(* SpecCodec: encode a record sequence, hand the buffer (as encoded, cut   *)
(* short, or with an extra flag appended) to decode.                       *)
(***************************************************************************)
InitCodec ==
  /\ items \in RecordSeqs(0)
  /\ littleEndian \in {"undefined", "true", "false"}
  /\ buffer = NoBuffer /\ encoded = NotEncoded /\ decoded = NotDecoded
  /\ chunks = <<>> /\ take = TakeIdle /\ StreamIdle

\* blob = encode(items, littleEndian)
Encode ==
  /\ ~encoded.done
  /\ LET r == encode(items, littleEndian)
     IN /\ encoded' = [done |-> TRUE, ok |-> r.ok, blob |-> r.blob]
        /\ buffer' = IF r.ok THEN [bytes |-> r.blob, origin |-> "encoded"] ELSE buffer
  /\ UNCHANGED <<items, littleEndian, decoded, chunks, take, streamVars>>

\* The buffer loses its tail: only its first n bytes reach the decoder.
Truncate ==
  \E n \in 0..(Len(buffer.bytes) - 1) :
    /\ buffer.origin = "encoded" /\ ~decoded.done
    /\ buffer' = [bytes |-> SubSeq(buffer.bytes, 1, n), origin |-> "truncated"]
    /\ UNCHANGED <<items, littleEndian, encoded, decoded, chunks, take, streamVars>>

\* A buffer whose last record has no extra gets an extra-flag byte that is
\* none of 0, 1, 2, and some bytes after it.
AppendFlag ==
  \E eFlag \in {3, 4, 255}, tail \in BytesUpTo({0, 1}, 0, MaxTail) :
    /\ buffer.origin = "encoded" /\ ~decoded.done
    /\ items[Len(items)].extra.kind = "null"
    /\ buffer' = [bytes |-> buffer.bytes \o <<eFlag>> \o tail, origin |-> "flagged"]
    /\ UNCHANGED <<items, littleEndian, encoded, decoded, chunks, take, streamVars>>

\* A buffer whose last record has an extra is followed directly, with no
\* 0x00 between, by the encoding of one more record.
AppendRecord ==
  \E r \in RecordPool :
    /\ buffer.origin = "encoded" /\ ~decoded.done
    /\ items[Len(items)].extra.kind # "null"
    /\ buffer' = [bytes |-> buffer.bytes \o encode(<<r>>, "true").blob,
                  origin |-> "unseparated"]
    /\ UNCHANGED <<items, littleEndian, encoded, decoded, chunks, take, streamVars>>

\* A header whose byte 0 is no dtype code, with any dimension-count byte and
\* some bytes after it, alone or after the encoded records and a 0x00.
BadDType ==
  \E lead \in BOOLEAN, i0 \in BadDTypeBytes, i1 \in {0, 1},
     tail \in BytesUpTo({0, 1}, 0, MaxJunk) :
    /\ buffer.origin = "encoded" /\ ~decoded.done
    /\ buffer' = [bytes |-> (IF lead THEN buffer.bytes \o <<0>> ELSE <<>>)
                             \o <<i0, i1>> \o tail,
                  origin |-> "baddtype"]
    /\ UNCHANGED <<items, littleEndian, encoded, decoded, chunks, take, streamVars>>

\* The buffer is the single-record blobs of the items joined by 0x00 bytes.
Join ==
  /\ buffer.origin = "none" /\ Len(items) > 0
  /\ buffer' = [bytes |-> JoinBlobs(items, littleEndian), origin |-> "joined"]
  /\ UNCHANGED <<items, littleEndian, encoded, decoded, chunks, take, streamVars>>

\* decode(buffer)
Decode ==
  /\ buffer.origin # "none" /\ ~decoded.done
  /\ LET r == decode(buffer.bytes)
     IN decoded' = [done |-> TRUE, thrown |-> r.thrown, result |-> r.result]
  /\ UNCHANGED <<items, littleEndian, buffer, encoded, chunks, take, streamVars>>

NextCodec ==
  Encode \/ Truncate \/ AppendFlag \/ AppendRecord \/ BadDType \/ Join \/ Decode

SpecCodec == InitCodec /\ [][NextCodec]_vars

(***************************************************************************)
(* SpecEncode: encode alone, on records that reach its limits: the test    *)
(* vectors' 2x3 float32 array without and with its extra, shapes of        *)
(* MaxDims and MaxDims + 1 dimensions, dimensions around 65536, the        *)
(* largest 32-bit dimension the model's integers hold and a shape of       *)
(* MaxDims dimensions with 32-bit entries (these with a zero dimension, so *)
(* that the array has no element).                                         *)
(***************************************************************************)
\* new Float32Array([1.1, 2.2, 3.3, 4.4, 5.5, 6.6]) as float32 bit patterns
MatData ==
  <<1066192077, 1074580685, 1079194419, 1082969293, 1085276160, 1087583027>>

Mat == [shape |-> <<2, 3>>, dType |-> "float32", data |-> MatData, extra |-> NoExtra]

MatAndExtra == [Mat EXCEPT !.extra = JsonExtra("minmax")]

EncodePool ==
  RecordPool \cup
  { Mat, MatAndExtra,
    [shape |-> [k \in 1..MaxDims |-> 1], dType |-> "uint8", data |-> <<5>>,
     extra |-> NoExtra],
    [shape |-> [k \in 1..(MaxDims + 1) |-> 1], dType |-> "uint8", data |-> <<5>>,
     extra |-> NoExtra],
    [shape |-> <<65535, 0>>, dType |-> "uint8", data |-> <<>>, extra |-> NoExtra],
    [shape |-> <<65536, 0>>, dType |-> "uint8", data |-> <<>>,
     extra |-> JsonExtra("emptyArray")],
    [shape |-> <<0, 2147483647>>, dType |-> "uint16", data |-> <<>>,
     extra |-> NoExtra],
    [shape |-> [k \in 1..MaxDims |-> IF k = 1 THEN 65536 ELSE IF k = 2 THEN 0 ELSE 1],
     dType |-> "uint8", data |-> <<>>, extra |-> NoExtra] }

InitEncode ==
  /\ items \in UNION {[1..n -> EncodePool] : n \in 1..MaxRecords}
  /\ littleEndian \in {"undefined", "true", "false"}
  /\ buffer = NoBuffer /\ encoded = NotEncoded /\ decoded = NotDecoded
  /\ chunks = <<>> /\ take = TakeIdle /\ StreamIdle

NextEncode == Encode

SpecEncode == InitEncode /\ [][NextEncode]_vars

(***************************************************************************)
(* SpecDType: encode and decode on one record of each dtype name encode    *)
(* knows (float elements as bit patterns: 0.5 for float16, 1.0 for         *)
(* float32, the smallest positive value for float64) and on records with a *)
(* dimension of 65536, which takes 32-bit shape entries.                   *)
(***************************************************************************)
DTypePool ==
  { [shape |-> <<1>>, dType |-> "uint8", data |-> <<7>>, extra |-> NoExtra],
    [shape |-> <<1>>, dType |-> "uint16", data |-> <<513>>, extra |-> NoExtra],
    [shape |-> <<1>>, dType |-> "uint32", data |-> <<67305985>>, extra |-> NoExtra],
    [shape |-> <<1>>, dType |-> "int8", data |-> <<-2>>, extra |-> NoExtra],
    [shape |-> <<2>>, dType |-> "int16", data |-> <<-2, 3>>, extra |-> NoExtra],
    [shape |-> <<1>>, dType |-> "int32", data |-> <<5>>, extra |-> NoExtra],
    [shape |-> <<1>>, dType |-> "float16", data |-> <<1056964608>>, extra |-> NoExtra],
    [shape |-> <<1>>, dType |-> "float32", data |-> <<1065353216>>, extra |-> NoExtra],
    [shape |-> <<1>>, dType |-> "float64", data |-> <<1>>, extra |-> NoExtra],
    [shape |-> <<65536, 0>>, dType |-> "uint8", data |-> <<>>, extra |-> NoExtra],
    [shape |-> <<0, 65536, 1>>, dType |-> "uint16", data |-> <<>>,
     extra |-> JsonExtra("emptyArray")] }

InitDType ==
  /\ items \in UNION {[1..n -> DTypePool] : n \in 1..MaxRecords}
  /\ littleEndian \in {"undefined", "true", "false"}
  /\ buffer = NoBuffer /\ encoded = NotEncoded /\ decoded = NotDecoded
  /\ chunks = <<>> /\ take = TakeIdle /\ StreamIdle

NextDType == Encode \/ Decode

SpecDType == InitDType /\ [][NextDType]_vars

(***************************************************************************)
(* Properties of the take-L primitive (SpecSplit)                          *)
(***************************************************************************)
Total(q) == Len(Concat(q))

\* C3: whenever splitChunks fails (fewer than length bytes are buffered), the
\* chunk queue is left exactly as it was before the call - same chunks, same
\* boundaries - so a repeated call meets the same queue and fails again.
C3_TakeFailureLeavesQueue ==
  (take.calls > 0 /\ ~take.ok) =>
     /\ Total(take.before) < take.length
     /\ take.after = take.before
     /\ chunks = take.before

\* A second consecutive failure of the same length on a queue of two chunks.
C3_Witness ==
  /\ take.calls > 0 /\ ~take.ok /\ take.failures >= 2
  /\ Len(take.before) >= 2 /\ Total(take.before) > 0

\* C4: whenever the queue holds at least length bytes, splitChunks succeeds,
\* returns exactly the first length bytes of the queue's concatenation, and
\* leaves a queue whose concatenation is the rest; a chunk that straddles the
\* cut is replaced at the front of the queue by its remainder.
C4_TakeSuccessConservesBytes ==
  (take.calls > 0 /\ Total(take.before) >= take.length) =>
     /\ take.ok
     /\ take.bytes = SubSeq(Concat(take.before), 1, take.length)
     /\ take.bytes \o Concat(take.after) = Concat(take.before)
     /\ \A k \in 1..Len(take.before) :
          LET accPrev == Total(SubSeq(take.before, 1, k - 1))
              chunk == take.before[k]
          IN (accPrev < take.length /\ take.length < accPrev + Len(chunk)) =>
               take.after = <<SubSeq(chunk, take.length - accPrev + 1, Len(chunk))>>
                            \o SubSeq(take.before, k + 1, Len(take.before))

\* A successful take whose cut falls inside the second chunk.
C4_Witness ==
  /\ take.calls > 0 /\ take.ok /\ Len(take.before) >= 2
  /\ Len(take.before[1]) < take.length
  /\ take.length < Len(take.before[1]) + Len(take.before[2])
  /\ Len(take.before[1]) > 0

(***************************************************************************)
(* The layout of encode's output, from the format's grammar: where each    *)
(* record of a little-endian blob starts, where its data block ends and    *)
(* where the record (with its extra) ends.                                 *)
(***************************************************************************)
LayoutData(item) ==
  2 + Len(item.shape) * (IF bigShapeOf(item) THEN 4 ELSE 2)
    + Len(item.data) * BYTES_PER_ELEMENT(item.dType)

LayoutExtra(item) ==
  IF item.extra.kind = "null" THEN 0
  ELSE 5 + (IF item.extra.kind = "raw" THEN Len(item.extra.bytes)
            ELSE Len(JSON_stringify(item.extra.json)))

RECURSIVE LayoutStart(_, _)
LayoutStart(its, i) ==
  IF i = 1 THEN 0
  ELSE LayoutStart(its, i - 1) + LayoutData(its[i - 1]) + LayoutExtra(its[i - 1]) + 1

LayoutDataEnd(its, i) == LayoutStart(its, i) + LayoutData(its[i])
LayoutEnd(its, i) == LayoutDataEnd(its, i) + LayoutExtra(its[i])

\* A buffer of c bytes ends inside a field of record i: its header, shape or
\* data block, or its extra length or payload.
MidField(its, c) ==
  \E i \in 1..Len(its) :
    \/ LayoutStart(its, i) < c /\ c < LayoutDataEnd(its, i)
    \/ LayoutDataEnd(its, i) < c /\ c < LayoutEnd(its, i)

(***************************************************************************)
(* Properties of the one-shot codec (SpecCodec)                            *)
(***************************************************************************)
\* C5: for every non-empty valid record sequence and both values of the
\* little_endian argument, encode succeeds and decode(encode(R)) is R: the
\* same records with the same shape, dtype, data and extra.
C5_RoundTrip ==
  (Len(items) > 0 /\ littleEndian \in {"true", "false"}) =>
     /\ encoded.done => encoded.ok
     /\ (decoded.done /\ buffer.origin = "encoded") =>
          (~decoded.thrown /\ decoded.result = items)

\* C6: decoding the big-endian encoding succeeds and yields the records that
\* decoding the little-endian encoding of the same sequence yields.
C6_EndiannessSymmetry ==
  (Len(items) > 0 /\ littleEndian = "false" /\ decoded.done
   /\ buffer.origin = "encoded") =>
     /\ ~decoded.thrown
     /\ ~decode(encode(items, "true").blob).thrown
     /\ decoded.result = decode(encode(items, "true").blob).result

\* C7: decode of a little-endian buffer cut inside a field raises an error
\* and returns no records.
C7_TruncatedDecodeFails ==
  (buffer.origin = "truncated" /\ decoded.done /\ littleEndian # "false"
   /\ MidField(items, Len(buffer.bytes))) =>
     (decoded.thrown /\ decoded.result = <<>>)

\* C10: decode raises an error when the byte after the last record's data
\* block is none of 0, 1, 2, whatever follows the flag.
C10_InvalidFlagIsError ==
  (buffer.origin = "flagged" /\ decoded.done /\ littleEndian # "false") =>
     decoded.thrown

\* C11: when the last record of a buffer, decoded with its extra, is followed
\* by a byte that is not 0x00 (here the header of one more record), decode
\* raises an error instead of returning the records decoded so far.
C11_MissingSeparatorIsError ==
  (buffer.origin = "unseparated" /\ decoded.done /\ littleEndian # "false") =>
     decoded.thrown

\* The ways the parser meets the buffer: as one chunk, and as a queue of two
\* chunks cut at any of the last `last` places.
Queues(bytes, last) ==
  {<<bytes>>} \cup {<<SubSeq(bytes, 1, k), SubSeq(bytes, k + 1, Len(bytes))>> :
                      k \in {j \in 1..(Len(bytes) - 1) : j >= Len(bytes) - last}}

\* C12: a header whose byte 0 has magnitude 0, 4, 8 or at least 12 makes
\* decode throw and return no record, whether the header comes first or after
\* valid records and a separator, and whatever follows it; the parser throws
\* as well when the same bytes reach it as a queue of two chunks cut before,
\* inside or after that header.
C12_InvalidDTypeIsError ==
  (buffer.origin = "baddtype" /\ decoded.done /\ littleEndian # "false") =>
     /\ decoded.thrown /\ decoded.result = <<>>
     /\ \A q \in Queues(buffer.bytes, MaxJunk + 2) :
          LET r == parseFromUint8ArrayChunks(q)
          IN r.thrown /\ r.result = <<>>

\* An invalid header after two valid records and a separator has been decoded.
C12_Witness ==
  /\ buffer.origin = "baddtype" /\ decoded.done /\ decoded.thrown
  /\ littleEndian = "true" /\ Len(items) >= 2
  /\ Len(buffer.bytes) > Len(encoded.blob) + 3
  /\ buffer.bytes[Len(encoded.blob) + 2] \in {4, 8}

\* C13: decoding a record whose header byte 1 is zero (the encoding of a
\* record with an empty shape) fails.
C13_ZeroDimCountIsError ==
  (buffer.origin = "encoded" /\ decoded.done /\ littleEndian # "false"
   /\ \E i \in 1..Len(items) : items[i].shape = <<>>) =>
     decoded.thrown

\* C13, as the code has it: a header byte 1 of zero declares a record with
\* no dimensions. encode writes it for an empty shape, and decode of a
\* host-order buffer reads no shape entry and returns, in that record's
\* place, a record with an empty shape.
C13_ZeroDimCountAccepted ==
  (buffer.origin = "encoded" /\ decoded.done /\ littleEndian # "false") =>
     \A i \in 1..Len(items) :
       buffer.bytes[LayoutStart(items, i) + 2] = 0 =>
         /\ items[i].shape = <<>>
         /\ ~decoded.thrown
         /\ Len(decoded.result) >= i
         /\ decoded.result[i].shape = <<>>
         /\ decoded.result[i].dType = items[i].dType

\* A buffer whose second record has header byte 1 = 0 has been decoded.
C13_Witness ==
  /\ buffer.origin = "encoded" /\ decoded.done /\ littleEndian = "true"
  /\ Len(items) >= 2
  /\ buffer.bytes[LayoutStart(items, 2) + 2] = 0
  /\ ~decoded.thrown

\* C14: encode accepts every record with an empty shape, and decoding what it
\* wrote in the host's byte order yields, in that record's place, a record
\* with an empty shape and exactly one data element (the one encoded).
C14_ZeroDimBoundary ==
  \A i \in 1..Len(items) :
    items[i].shape = <<>> =>
      /\ encoded.done => encoded.ok
      /\ (decoded.done /\ buffer.origin = "encoded" /\ littleEndian # "false") =>
           /\ ~decoded.thrown
           /\ Len(decoded.result) = Len(items)
           /\ decoded.result[i].shape = <<>>
           /\ Len(decoded.result[i].data) = 1
           /\ decoded.result[i].data = items[i].data

\* The encoding of a single record with an empty shape has been decoded.
C14_Witness ==
  /\ Len(items) = 1 /\ items[1].shape = <<>>
  /\ littleEndian = "undefined" /\ encoded.done /\ encoded.ok
  /\ buffer.origin = "encoded" /\ decoded.done
  /\ Len(decoded.result) = 1 /\ decoded.result[1].shape = <<>>

\* C17: decoding N single-record blobs joined by single 0x00 bytes returns
\* exactly N records, the i-th being the record decode returns for the i-th
\* blob alone.
C17_MultiRecordDecode ==
  (buffer.origin = "joined" /\ decoded.done /\ littleEndian # "false") =>
     /\ ~decoded.thrown
     /\ Len(decoded.result) = Len(items)
     /\ \A i \in 1..Len(items) :
          decode(encode(<<items[i]>>, littleEndian).blob).result = <<decoded.result[i]>>

\* A record without extra followed by a record with extra, joined and decoded.
C17_Witness ==
  /\ buffer.origin = "joined" /\ decoded.done /\ littleEndian = "true"
  /\ Len(items) >= 2 /\ Len(decoded.result) = Len(items)
  /\ items[1].extra.kind = "null" /\ items[2].extra.kind # "null"

\* C29: encode of no records succeeds and returns the empty buffer, and
\* decode of the empty buffer succeeds and returns no records.
C29_EmptyBlob ==
  /\ (items = <<>> /\ encoded.done) => (encoded.ok /\ encoded.blob = <<>>)
  /\ (decoded.done /\ buffer.bytes = <<>>) =>
       (~decoded.thrown /\ decoded.result = <<>>)

(***************************************************************************)
(* Properties of encode alone (SpecEncode)                                 *)
(***************************************************************************)
\* The blob was written by encode in the host's byte order.
HostOrder == littleEndian \in {"undefined", "true"}

\* C15: encode accepts a record sequence whose shapes all have at most 128
\* dimensions, exactly 128 included, and fails, producing no output, for a
\* sequence that holds a record of 129 or more dimensions, wherever it stands.
C15_DimensionCountLimit ==
  encoded.done =>
    /\ (\A i \in 1..Len(items) : Len(items[i].shape) <= 128) => encoded.ok
    /\ (\E i \in 1..Len(items) : Len(items[i].shape) >= 129) =>
         (~encoded.ok /\ encoded.blob = <<>> /\ buffer = NoBuffer)

\* A sequence with a record of exactly 128 dimensions has been encoded.
C15_Witness ==
  /\ encoded.done /\ encoded.ok
  /\ \E i \in 1..Len(items) : Len(items[i].shape) = 128

\* The test vector arrHex: the blob of the 2x3 float32 array.
ArrHex ==
  <<10, 2, 2, 0, 3, 0,
    205, 204, 140, 63, 205, 204, 12, 64, 51, 51, 83, 64,
    205, 204, 140, 64, 0, 0, 176, 64, 51, 51, 211, 64>>

\* C16: one record encoded in little-endian order is byte 0 = dtype code,
\* byte 1 = dimension count (as a negative byte for 32-bit entries), the
\* shape entries, the data elements, and then nothing more when there is no
\* extra, or, for a structured extra, the flag 2, the length of the JSON text
\* in 4 little-endian bytes and that text.  The 2x3 float32 array encodes to
\* the literal bytes, and with its extra to these followed by 02 15 00 00 00
\* and the 21 bytes of the text.
C16_SingleRecordLayout ==
  (encoded.done /\ Len(items) = 1 /\ HostOrder /\ Len(items[1].shape) <= 128) =>
    LET r == items[1]
        b == encoded.blob
        n == Len(r.shape)
        wide == \E k \in 1..n : r.shape[k] >= 65536
        w == IF wide THEN 4 ELSE 2
        es == BYTES_PER_ELEMENT(r.dType)
        dataStart == 2 + n * w
        dataEnd == dataStart + Len(r.data) * es
    IN /\ encoded.ok
       /\ Len(b) >= dataEnd
       /\ b[1] = DTYPE_FLAGS_ENCODING(r.dType)
       /\ b[2] = IF wide THEN 256 - n ELSE n
       /\ \A k \in 1..n :
            FromLE(SubSeq(b, 2 + (k - 1) * w + 1, 2 + k * w)) = r.shape[k]
       /\ \A k \in 1..Len(r.data) :
            FromLE(SubSeq(b, dataStart + (k - 1) * es + 1, dataStart + k * es)) = r.data[k]
       /\ r.extra.kind = "null" => Len(b) = dataEnd
       /\ r.extra.kind = "json" =>
            LET text == JSON_stringify(r.extra.json)
            IN /\ Len(b) = dataEnd + 5 + Len(text)
               /\ b[dataEnd + 1] = 2
               /\ FromLE(SubSeq(b, dataEnd + 2, dataEnd + 5)) = Len(text)
               /\ SubSeq(b, dataEnd + 6, Len(b)) = text
       /\ r = Mat => b = ArrHex
       /\ r = MatAndExtra => b = ArrHex \o <<2, 21, 0, 0, 0>> \o MinMaxText

\* The 2x3 float32 array with its structured extra has been encoded alone.
C16_Witness ==
  /\ encoded.done /\ encoded.ok /\ littleEndian = "true"
  /\ items = <<MatAndExtra>>

\* C18: encode of N records in host byte order is the single-record
\* encodings joined by one 0x00 before every record but the first: the i-th
\* record starts where the sum of the lengths before it, plus i - 1, ends,
\* no 0x00 precedes the first header, and the length is the sum plus N - 1.
C18_EncodeSeparators ==
  (encoded.done /\ encoded.ok /\ HostOrder) =>
    LET single == [i \in 1..Len(items) |-> encode(<<items[i]>>, littleEndian).blob]
        start == [i \in 1..Len(items) |-> Len(Concat(SubSeq(single, 1, i - 1))) + i - 1]
    IN /\ encoded.blob = JoinBlobs(items, littleEndian)
       /\ Len(encoded.blob) = Len(Concat(single)) + Len(items) - 1
       /\ encoded.blob[1] # 0
       /\ \A i \in 1..Len(items) :
            /\ i > 1 => encoded.blob[start[i]] = 0
            /\ SubSeq(encoded.blob, start[i] + 1, start[i] + Len(single[i])) = single[i]
            /\ single[i][1] = DTYPE_FLAGS_ENCODING(items[i].dType)

\* Two records, the first with an extra, have been encoded together.
C18_Witness ==
  /\ encoded.done /\ encoded.ok /\ littleEndian = "undefined"
  /\ Len(items) >= 2 /\ items[1].extra.kind # "null"

C30_HeaderByte1Unambiguous ==
  (encoded.done /\ encoded.ok) =>
    LET byte1(i) == encoded.blob[LayoutStart(items, i) + 2]
        s1(i) == IF byte1(i) >= 128 THEN byte1(i) - 256 ELSE byte1(i)
    IN /\ \A i \in 1..Len(items) :
            /\ s1(i) >= 0 => (Len(items[i].shape) = s1(i) /\ ~bigShapeOf(items[i]))
            /\ s1(i) < 0 => (Len(items[i].shape) = -s1(i) /\ bigShapeOf(items[i]))
       /\ \A i, j \in 1..Len(items) :
            byte1(i) = byte1(j) =>
              /\ Len(items[i].shape) = Len(items[j].shape)
              /\ bigShapeOf(items[i]) = bigShapeOf(items[j])

\* The n bytes of element v in big-endian order.
BEBytes(v, n) == [j \in 1..n |-> LEBytes(v, n)[n + 1 - j]]

\* C24: encode with a target byte order other than the host's writes, for
\* every record, each shape entry and each data element at its place in the
\* blob with its bytes in the reverse of host order.
C24_EncoderByteSwap ==
  (encoded.done /\ encoded.ok /\ littleEndian = "false") =>
     \A i \in 1..Len(items) :
       LET r == items[i]
           n == Len(r.shape)
           w == IF bigShapeOf(r) THEN 4 ELSE 2
           es == BYTES_PER_ELEMENT(r.dType)
           shapeStart == LayoutStart(items, i) + 2
           dataStart == shapeStart + n * w
       IN /\ \A k \in 1..n :
               SubSeq(encoded.blob, shapeStart + (k - 1) * w + 1, shapeStart + k * w)
                 = BEBytes(r.shape[k], w)
          /\ \A k \in 1..Len(r.data) :
               SubSeq(encoded.blob, dataStart + (k - 1) * es + 1, dataStart + k * es)
                 = BEBytes(r.data[k], es)

(***************************************************************************)
(* Properties of the headers and data blocks of every dtype (SpecDType)    *)
(***************************************************************************)
\* A byte read as a signed 8-bit value.
Signed(b) == IF b >= 128 THEN b - 256 ELSE b

\* C25: when byte 0 or byte 1 of the first header encode wrote is negative
\* as a signed byte, decode reads the record: a negative byte 0 as big-endian
\* with the dtype of its magnitude, a negative byte 1 as that many 32-bit
\* shape entries, so that the first record decoded has the dtype and the
\* shape of the first record encoded.
C25_HeaderSigns ==
  (decoded.done /\ buffer.origin = "encoded") =>
    LET s0 == Signed(buffer.bytes[1])
        s1 == Signed(buffer.bytes[2])
        mag0 == IF s0 < 0 THEN -s0 ELSE s0
    IN (s0 < 0 \/ s1 < 0) =>
         /\ ~decoded.thrown
         /\ Len(decoded.result) >= 1
         /\ mag0 \in DTYPE_FLAGS_DECODING
         /\ decoded.result[1].dType = typOf(mag0)
         /\ Len(decoded.result[1].shape) = (IF s1 < 0 THEN -s1 ELSE s1)
         /\ decoded.result[1].shape = items[1].shape

\* C26: in every blob encode returns, the data block of each record is
\* product(shape) * dSize bytes long, dSize being the element size the
\* decoder's table gives for the dtype code in that record's header, and the
\* blob is as long as the records so laid out.
C26_DataBlockLength ==
  (encoded.done /\ encoded.ok) =>
    /\ Len(encoded.blob) = LayoutEnd(items, Len(items))
    /\ \A i \in 1..Len(items) :
         LET at == LayoutStart(items, i)
             s0 == Signed(encoded.blob[at + 1])
             code == IF s0 < 0 THEN -s0 ELSE s0
             n == Len(items[i].shape)
             w == IF bigShapeOf(items[i]) THEN 4 ELSE 2
         IN /\ code \in DTYPE_FLAGS_DECODING
            /\ LayoutDataEnd(items, i) - (at + 2 + n * w)
                 = Product(items[i].shape) * dSizeOf(code)

(***************************************************************************)
(* streamFromReadableStream(stream)                                        *)
(*                                                                         *)
(* The driver state is handled as one record d = [chunks, nes, streamDone, *)
(* pc, ctrl, emitted].  ctrl is the state of the ReadableStream the        *)
(* function returns - new ReadableStream({ pull }) with the default        *)
(* queuing strategy - and of the one reader the consumer holds.            *)
(* pc says where the async function yieldArrays stands: "none" (no call in *)
(* progress), "await" (suspended at await streamReader.read()),            *)
(* "fulfilled" / "rejected" (it returned / threw and the stream has not    *)
(* yet reacted to the promise pull returned).                              *)
(***************************************************************************)
HighWaterMark == 1

Cur == [chunks |-> chunks, nes |-> nes, streamDone |-> streamDone, pc |-> pc,
        ctrl |-> ctrl, emitted |-> emitted]

Install(d) ==
  /\ chunks' = d.chunks /\ nes' = d.nes /\ streamDone' = d.streamDone
  /\ pc' = d.pc /\ ctrl' = d.ctrl /\ emitted' = d.emitted

\* ReadableStreamDefaultControllerCanCloseOrEnqueue
CanCloseOrEnqueue(d) == ~d.ctrl.closeRequested /\ d.ctrl.state = "readable"

\* ReadableStreamDefaultControllerShouldCallPull
ShouldCallPull(d) ==
  /\ CanCloseOrEnqueue(d)
  /\ d.ctrl.started
  /\ (d.ctrl.readRequests > 0 \/ HighWaterMark - Len(d.ctrl.queue) > 0)

\* A throw inside yieldArrays rejects the promise pull returned.
Rejected(d) == [d EXCEPT !.pc = "rejected"]

\* yieldArrays returns: the promise is fulfilled, unless it threw before.
Returned(d) == IF d.pc = "rejected" THEN d ELSE [d EXCEPT !.pc = "fulfilled"]

\* controller.close()
controllerClose(d) ==
  IF ~CanCloseOrEnqueue(d) THEN Rejected(d)
  ELSE IF Len(d.ctrl.queue) = 0
       THEN [d EXCEPT !.ctrl.closeRequested = TRUE, !.ctrl.state = "closed",
                      !.ctrl.readerDone = @ \/ d.ctrl.readRequests > 0,
                      !.ctrl.readRequests = 0]
       ELSE [d EXCEPT !.ctrl.closeRequested = TRUE]

\* controllerEnqueue putting the record into the queue even when a read is
\* waiting for it.
controllerEnqueue_queueOnly(d, ne) ==
  IF ~CanCloseOrEnqueue(d) THEN Rejected(d)
  ELSE [d EXCEPT !.ctrl.queue = Append(@, ne), !.emitted = Append(@, ne)]

\* controller.enqueue(ne), called while pull is in progress: the record goes
\* to a waiting read or into the queue, and the controller notes that pull
\* is to be called again if it should be.
controllerEnqueue(d, ne) ==
  IF ~CanCloseOrEnqueue(d) THEN Rejected(d)
  ELSE Bind(IF d.ctrl.readRequests > 0
            THEN [d EXCEPT !.ctrl.readRequests = @ - 1,
                           !.ctrl.delivered = Append(@, ne),
                           !.emitted = Append(@, ne)]
            ELSE [d EXCEPT !.ctrl.queue = Append(@, ne),
                           !.emitted = Append(@, ne)],
            LAMBDA d1 :
              IF ShouldCallPull(d1) /\ d1.ctrl.pulling
              THEN [d1 EXCEPT !.ctrl.pullAgain = TRUE] ELSE d1)

\* while (nes.length > 0) { controller.enqueue(nes.shift()!) }
RECURSIVE drain(_)
drain(d) ==
  IF Len(d.nes) = 0 \/ d.pc = "rejected" THEN d
  ELSE Bind(controllerEnqueue([d EXCEPT !.nes = Tail(@)], Head(d.nes)),
            LAMBDA d1 : drain(d1))

\* for (const ne of parseFromUint8ArrayChunks(chunks)) { nes.push(ne) }
parseInto(d) ==
  Bind(parseFromUint8ArrayChunks(d.chunks), LAMBDA r :
    IF r.thrown THEN Rejected([d EXCEPT !.chunks = r.chunks])
    ELSE [d EXCEPT !.chunks = r.chunks, !.nes = d.nes \o r.result])

\* The else branch of if (!streamDone): parse, drain, else close and throw
\* if chunks are left.
yieldArraysExhausted(d) ==
  Bind(parseInto(d), LAMBDA d1 :
    IF d1.pc = "rejected" THEN d1
    ELSE IF Len(d1.nes) > 0 THEN Returned(drain(d1))
    ELSE Bind(controllerClose(d1), LAMBDA d2 :
           IF Len(d2.chunks) > 0 THEN Rejected(d2) ELSE Returned(d2)))

\* yieldArrays from its start to its first await or its return.
yieldArraysStart(d) ==
  IF d.streamDone /\ Len(d.nes) = 0 THEN Returned(controllerClose(d))
  ELSE IF Len(d.nes) > 0 THEN Returned(drain(d))
  ELSE Bind(IF Len(d.chunks) > 0 THEN parseInto(d) ELSE d, LAMBDA d1 :
         IF d1.pc = "rejected" THEN d1
         ELSE IF Len(d1.nes) > 0 THEN Returned(drain(d1))
         ELSE IF ~d1.streamDone THEN [d1 EXCEPT !.pc = "await"]
         ELSE yieldArraysExhausted(d1))

\* yieldArrays resumed by streamReader.read() yielding a chunk: push, parse,
\* and either wait for the next chunk or enqueue what was decoded.
yieldArraysChunk(d, chunk) ==
  Bind(parseInto([d EXCEPT !.chunks = Append(@, chunk)]), LAMBDA d1 :
    IF d1.pc = "rejected" THEN d1
    ELSE IF Len(d1.nes) = 0 THEN [d1 EXCEPT !.pc = "await"]
    ELSE Returned(drain(d1)))

\* yieldArrays resumed by streamReader.read() reporting done.
yieldArraysDone(d) ==
  Bind([d EXCEPT !.streamDone = TRUE], LAMBDA d1 :
    IF Len(d1.nes) > 0 THEN Returned(drain(d1)) ELSE Returned(d1))

\* pull(controller): yieldArrays is called.  ctrl.overlapped notes a call made
\* while an earlier call of yieldArrays is suspended at its await.
pull(d) == yieldArraysStart([d EXCEPT !.ctrl.overlapped = @ \/ d.pc = "await"])

\* CallPullIfNeeded calling pull whether or not a pull is in progress.
CallPullIfNeeded_reenter(d) ==
  IF ~ShouldCallPull(d) THEN d
  ELSE pull([d EXCEPT !.ctrl.pulling = TRUE])

\* ReadableStreamDefaultControllerCallPullIfNeeded
CallPullIfNeeded(d) ==
  IF ~ShouldCallPull(d) THEN d
  ELSE IF d.ctrl.pulling THEN [d EXCEPT !.ctrl.pullAgain = TRUE]
  ELSE pull([d EXCEPT !.ctrl.pulling = TRUE])

\* The stream's reaction to pull's promise being fulfilled.
pullFulfilled(d) ==
  Bind([d EXCEPT !.pc = "none", !.ctrl.pulling = FALSE, !.ctrl.pullAgain = FALSE],
       LAMBDA d1 : IF d.ctrl.pullAgain THEN CallPullIfNeeded(d1) ELSE d1)

\* The stream's reaction to pull's promise being rejected: the stream
\* errors, its queue is dropped and a waiting read is rejected.
pullRejected(d) ==
  IF d.ctrl.state # "readable" THEN [d EXCEPT !.pc = "none"]
  ELSE [d EXCEPT !.pc = "none", !.ctrl.state = "errored", !.ctrl.queue = <<>>,
                 !.ctrl.readerError = @ \/ d.ctrl.readRequests > 0,
                 !.ctrl.readRequests = 0]

\* reader.read()
readerRead(d) ==
  IF d.ctrl.state = "closed" THEN [d EXCEPT !.ctrl.readerDone = TRUE]
  ELSE IF d.ctrl.state = "errored" THEN [d EXCEPT !.ctrl.readerError = TRUE]
  ELSE IF Len(d.ctrl.queue) > 0
       THEN Bind([d EXCEPT !.ctrl.queue = Tail(@),
                           !.ctrl.delivered = Append(@, Head(d.ctrl.queue))],
                 LAMBDA d1 :
                   IF d1.ctrl.closeRequested /\ Len(d1.ctrl.queue) = 0
                   THEN [d1 EXCEPT !.ctrl.state = "closed"]
                   ELSE CallPullIfNeeded(d1))
       ELSE CallPullIfNeeded([d EXCEPT !.ctrl.readRequests = @ + 1])

(***************************************************************************)
(* Spec: a source carrying the first bytes of encode(items), in chunks of  *)
(* any size, a consumer that awaits each read before the next.             *)
(***************************************************************************)
Blob == encode(items, "true").blob

Init ==
  /\ items \in RecordSeqs(1)
  /\ source \in {SubSeq(encode(items, "true").blob, 1, n) :
                   n \in 0..Len(encode(items, "true").blob)}
  /\ sent = <<>> /\ chunks = <<>> /\ nes = <<>> /\ streamDone = FALSE
  /\ pc = "none" /\ ctrl = CtrlIdle /\ emitted = <<>>
  /\ take = TakeIdle /\ CodecIdle

\* The driver is followed until MaxEmitted records have been enqueued (it can
\* enqueue without end, see C2).
Watched == Len(emitted) < MaxEmitted

\* The stream has started: pull is called for the first time.
Start ==
  /\ ~ctrl.started
  /\ Install(CallPullIfNeeded([Cur EXCEPT !.ctrl.started = TRUE]))
  /\ UNCHANGED <<items, source, sent, take, codecVars>>

\* The consumer reads; it has no read outstanding.
Read ==
  /\ Watched
  /\ ctrl.readRequests = 0 /\ ~ctrl.readerDone /\ ~ctrl.readerError
  /\ Install(readerRead(Cur))
  /\ UNCHANGED <<items, source, sent, take, codecVars>>

\* The source yields its next chunk, of any length.
SourceChunk ==
  \E n \in 1..Len(source) :
    /\ pc = "await" /\ Watched
    /\ source' = SubSeq(source, n + 1, Len(source))
    /\ sent' = sent \o SubSeq(source, 1, n)
    /\ Install(yieldArraysChunk(Cur, SubSeq(source, 1, n)))
    /\ UNCHANGED <<items, take, codecVars>>

\* The source is exhausted.
SourceDone ==
  /\ pc = "await" /\ source = <<>> /\ Watched
  /\ Install(yieldArraysDone(Cur))
  /\ UNCHANGED <<items, source, sent, take, codecVars>>

PullFulfilled ==
  /\ pc = "fulfilled" /\ Watched
  /\ Install(pullFulfilled(Cur))
  /\ UNCHANGED <<items, source, sent, take, codecVars>>

PullRejected ==
  /\ pc = "rejected" /\ Watched
  /\ Install(pullRejected(Cur))
  /\ UNCHANGED <<items, source, sent, take, codecVars>>

Next == Start \/ Read \/ SourceChunk \/ SourceDone \/ PullFulfilled \/ PullRejected

Spec == Init /\ [][Next]_vars

\* The event loop runs every reaction that is ready, the source answers
\* every read, and the consumer keeps reading.
LiveSpec ==
  /\ Spec
  /\ WF_vars(Start) /\ WF_vars(Read) /\ WF_vars(SourceChunk)
  /\ WF_vars(SourceDone) /\ WF_vars(PullFulfilled) /\ WF_vars(PullRejected)

(***************************************************************************)
(* Properties of the streaming driver (Spec, LiveSpec)                     *)
(***************************************************************************)
\* The source carries all of encode(items).
WholeBlob == sent \o source = Blob

\* The output stream has ended, normally or with an error.
StreamOver == ctrl.state \in {"closed", "errored"} \/ ctrl.closeRequested

\* The records whose whole encoding lies in the first c bytes of the blob.
CompleteRecords(its, c) == Cardinality({i \in 1..Len(its) : LayoutEnd(its, i) <= c})

\* C1: when the source carries all of encode(items), in chunks of any size,
\* the records the driver has emitted when the stream is over are exactly
\* decode(encode(items)), in order.
C1_StreamingEquivalence ==
  (WholeBlob /\ StreamOver) => emitted = decode(Blob).result

\* C2: the driver never emits more records than the bytes received so far
\* hold complete, and the i-th record emitted is the i-th record of the
\* stream (stated for sequences of records without extra).
C2_EmittedInOrder ==
  (\A i \in 1..Len(items) : items[i].extra.kind = "null") =>
     /\ Len(emitted) <= CompleteRecords(items, Len(sent))
     /\ \A i \in 1..Len(emitted) : i <= Len(items) /\ emitted[i] = items[i]

\* C8: when the source is exhausted after delivering a blob cut inside a
\* field, so that the queue holds bytes that complete no record, the output
\* stream does not end normally.
C8_TruncatedStreamErrors ==
  (streamDone /\ source = <<>> /\ MidField(items, Len(sent)) /\ Total(chunks) > 0) =>
     (ctrl.state # "closed" /\ ~ctrl.closeRequested /\ ~ctrl.readerDone)

\* C9: once the source is exhausted and the chunk queue is empty, the
\* consumer, reading on, receives end-of-stream.
C9_EndReached ==
  (streamDone /\ chunks = <<>> /\ Watched) ~> ctrl.readerDone

\* C22: every record the driver has emitted is a record of the stream whose
\* whole encoding - header, shape, data and, when it has an extra, the flag,
\* length and payload - lies within the bytes received so far, and it is
\* emitted with that extra.
C22_EmittedWhenComplete ==
  \A k \in 1..Len(emitted) :
    \E i \in 1..Len(items) :
      LayoutEnd(items, i) <= Len(sent) /\ emitted[k] = items[i]

\* C23: when the source carries all of encode(items), the consumer keeps
\* reading and every chunk asked for is delivered, the driver eventually has
\* emitted every record of items, in order (or has been followed up to
\* MaxEmitted records).
C23_AllEventuallyEmitted ==
  WholeBlob ~> (~Watched \/ (Len(emitted) >= Len(items)
                             /\ SubSeq(emitted, 1, Len(items)) = items))

\* C32: no call of yieldArrays begins while another is suspended, and a call
\* in progress is the one pull the stream has noted; a call is suspended only
\* at its read of the source, with the source not yet done; the output queue
\* nes is empty whenever a call has returned, thrown or is suspended (what a
\* parse decodes is enqueued before the call gives way); and while a call is
\* suspended, a step other than the source's answer leaves it suspended and
\* changes neither the chunk queue nor the output queue nor what was emitted.
C32_SingleDecodeInProgress ==
  /\ [](/\ ~ctrl.overlapped
        /\ pc # "none" => ctrl.pulling
        /\ pc = "await" => (~streamDone /\ ctrl.state = "readable")
        /\ nes = <<>>)
  /\ [][(pc = "await" /\ sent' = sent /\ streamDone' = streamDone) =>
           (pc' = "await" /\ UNCHANGED <<chunks, nes, emitted>>)]_vars

\* A read arrives while a call is suspended with part of a record buffered:
\* the stream notes that pull is wanted again and calls nothing.
C32_Witness ==
  /\ pc = "await" /\ ctrl.pullAgain /\ ctrl.readRequests > 0
  /\ chunks # <<>> /\ ~ctrl.overlapped

(***************************************************************************)
(* SpecAligned: the source of the repository's stream test, where every    *)
(* chunk is the blob of one record and no 0x00 stands between the chunks.  *)
(* No pull is rejected here (C19 states it), so the reaction to a rejected *)
(* pull has no part in it.                                                 *)
(***************************************************************************)
\* controller.enqueue(arrHex) / controller.enqueue(matAndExtraHex)
AlignedBlobs(its) == [i \in 1..Len(its) |-> encode(<<its[i]>>, "true").blob]

InitAligned ==
  /\ items \in RecordSeqs(1)
  /\ source = Concat(AlignedBlobs(items))
  /\ sent = <<>> /\ chunks = <<>> /\ nes = <<>> /\ streamDone = FALSE
  /\ pc = "none" /\ ctrl = CtrlIdle /\ emitted = <<>>
  /\ take = TakeIdle /\ CodecIdle

\* The number of whole blobs the source has delivered.
SentRecords ==
  Cardinality({k \in 1..Len(items) :
                 Len(Concat(SubSeq(AlignedBlobs(items), 1, k))) <= Len(sent)})

\* The source yields its next chunk: the blob of the next record.
SourceRecord ==
  /\ pc = "await" /\ Watched /\ source # <<>>
  /\ LET chunk == AlignedBlobs(items)[SentRecords + 1]
     IN /\ source' = SubSeq(source, Len(chunk) + 1, Len(source))
        /\ sent' = sent \o chunk
        /\ Install(yieldArraysChunk(Cur, chunk))
  /\ UNCHANGED <<items, take, codecVars>>

NextAligned == Start \/ Read \/ SourceRecord \/ SourceDone \/ PullFulfilled

SpecAligned == InitAligned /\ [][NextAligned]_vars

\* C19: with every chunk the blob of one record, each chunk delivered has
\* produced exactly one record, the records come out in delivery order, the
\* reads have received them in that order, a read waits only when every
\* record produced has been read, and no pull fails.
C19_ChunkAlignedRecords ==
  /\ pc # "rejected" /\ ctrl.state # "errored" /\ ~ctrl.readerError
  /\ Len(emitted) = SentRecords
  /\ emitted = SubSeq(items, 1, SentRecords)
  /\ ctrl.delivered \o ctrl.queue = emitted
  /\ ctrl.readRequests > 0 => ctrl.queue = <<>>
  /\ pc \in {"none", "fulfilled"} => (chunks = <<>> /\ nes = <<>>)

\* Two chunks, the first a record with extra and the second one without,
\* have been delivered and both records read.
C19_Witness ==
  /\ Len(items) >= 2 /\ SentRecords >= 2
  /\ items[1].extra.kind # "null" /\ items[2].extra.kind = "null"
  /\ Len(ctrl.delivered) >= 2
  /\ ctrl.delivered[1] = items[1] /\ ctrl.delivered[2] = items[2]

(***************************************************************************)
(* SpecParse: one call of parseFromUint8ArrayChunks on a queue of one or   *)
(* two chunks.  The queue holds the first bytes of encode(items), ending   *)
(* anywhere in the last record, or two records of which the first, without *)
(* extra, is followed by an extra flag 0 and then a 0x00 separator;        *)
(* decoded is the outcome of the call and chunks the queue as the call     *)
(* leaves it; buffer holds the bytes of the queue and the number of chunks *)
(* they came in.                                                           *)
(***************************************************************************)
\* encode([a]), the flag 0x00, the separator 0x00, encode([b])
FlagZeroBlob(its) ==
  encode(<<its[1]>>, "true").blob \o <<0, 0>> \o encode(<<its[2]>>, "true").blob

\* The queues that hold the given bytes in one chunk or in two non-empty ones
\* (or in three, the middle one of at most MaxChunkLen bytes).
QueuesOf(bytes) ==
  Queues(bytes, Len(bytes))
  \cup {<<SubSeq(bytes, 1, c[1]), SubSeq(bytes, c[1] + 1, c[1] + c[2]),
          SubSeq(bytes, c[1] + c[2] + 1, Len(bytes))>> :
          c \in {d \in (1..(Len(bytes) - 2)) \X (1..MaxChunkLen) :
                   d[1] + d[2] < Len(bytes)}}

InitParse ==
  /\ items \in RecordSeqs(1)
  /\ littleEndian = "true"
  /\ \/ \E n \in LayoutStart(items, Len(items))..Len(Blob) :
          /\ chunks \in QueuesOf(SubSeq(Blob, 1, n))
          /\ buffer = [bytes |-> SubSeq(Blob, 1, n), origin |-> "prefix",
                       parts |-> Len(chunks)]
     \/ /\ Len(items) = 2 /\ items[1].extra.kind = "null"
        /\ chunks \in QueuesOf(FlagZeroBlob(items))
        /\ buffer = [bytes |-> FlagZeroBlob(items), origin |-> "flagzero",
                     parts |-> Len(chunks)]
  /\ encoded = NotEncoded /\ decoded = NotDecoded
  /\ take = TakeIdle /\ StreamIdle

\* parseFromUint8ArrayChunks(chunks)
ParseQueue ==
  /\ ~decoded.done
  /\ LET r == parseFromUint8ArrayChunks(chunks)
     IN /\ decoded' = [done |-> TRUE, thrown |-> r.thrown, result |-> r.result]
        /\ chunks' = r.chunks
  /\ UNCHANGED <<items, littleEndian, buffer, encoded, take, streamVars>>

NextParse == ParseQueue

SpecParse == InitParse /\ [][NextParse]_vars

\* C21: when the queue ends inside a field of a record, the call returns the
\* k records before it without an error, and the bytes left in the queue are
\* the input bytes without the first k records and the flag or separator
\* byte consumed after each of them: no byte of a returned record is in the
\* queue again and no byte not consumed is lost.
C21_RollbackConservesBytes ==
  (buffer.origin = "prefix" /\ decoded.done /\ MidField(items, Len(buffer.bytes))) =>
     LET k == Len(decoded.result)
     IN /\ ~decoded.thrown
        /\ k < Len(items)
        /\ decoded.result = SubSeq(items, 1, k)
        /\ Concat(chunks)
             = SubSeq(buffer.bytes, LayoutStart(items, k + 1) + 1, Len(buffer.bytes))

\* C28: a record without extra followed by the flag byte 0x00, the separator
\* 0x00 and a second record is read as two records: the flag ends the first
\* record, the separator is consumed before the second header.
C28_FlagZeroThenSeparator ==
  (buffer.origin = "flagzero" /\ decoded.done) =>
     (~decoded.thrown /\ decoded.result = items)

\* C31: the outcome of one call depends on the bytes in the queue only, not
\* on where the chunks are cut: the call on a queue of two or three non-empty
\* chunks returns the records, or throws, as the call on the same bytes in
\* one chunk does, and the bytes it leaves in the queue are the same.
C31_ChunkingIndependence ==
  (decoded.done /\ buffer.bytes # <<>>) =>
     LET r == parseFromUint8ArrayChunks(<<buffer.bytes>>)
     IN /\ decoded.thrown = r.thrown
        /\ decoded.result = r.result
        /\ Concat(chunks) = Concat(r.chunks)

\* A queue of three chunks that ends inside a record was parsed: one record
\* was returned and the bytes read of the next were put back.
C31_Witness ==
  /\ decoded.done /\ buffer.origin = "prefix" /\ buffer.parts = 3
  /\ Len(items) = 2 /\ Len(decoded.result) = 1
  /\ MidField(items, Len(buffer.bytes))
  /\ Len(buffer.bytes) > LayoutStart(items, 2) + 2

(***************************************************************************)
(* SpecFaulty: the streaming driver on a source that carries a terminal    *)
(* fault: a header with an invalid dtype code at the start of the stream,  *)
(* or one record without extra followed by an extra flag that is none of   *)
(* 0, 1, 2 and a zero length.  buffer holds the bytes the source carries.  *)
(***************************************************************************)
InitFaulty ==
  /\ \/ /\ items = <<>>
        /\ \E i0 \in BadDTypeBytes, i1 \in {0, 1}, tail \in BytesUpTo({0, 1}, 0, MaxJunk) :
             buffer = [bytes |-> <<i0, i1>> \o tail, origin |-> "baddtype"]
     \/ /\ items \in {<<r>> : r \in {p \in RecordPool : p.extra.kind = "null"}}
        /\ \E eFlag \in {3, 4, 255} :
             buffer = [bytes |-> encode(items, "true").blob \o <<eFlag>>
                                 \o SetUint32(0, TRUE),
                       origin |-> "flagged"]
  /\ source = buffer.bytes
  /\ sent = <<>> /\ chunks = <<>> /\ nes = <<>> /\ streamDone = FALSE
  /\ pc = "none" /\ ctrl = CtrlIdle /\ emitted = <<>>
  /\ take = TakeIdle /\ littleEndian = "true"
  /\ encoded = NotEncoded /\ decoded = NotDecoded

SpecFaulty == InitFaulty /\ [][Next]_vars

\* The number of bytes with which the fault is before the parser: the two
\* header bytes, or the record with the flag, the length and the (empty)
\* payload, after which the switch on the flag is reached.
FaultAt == IF buffer.origin = "baddtype" THEN 2 ELSE Len(buffer.bytes)

\* The output stream has failed or is about to: pull's promise is rejected
\* or the stream is errored.
Failed == pc = "rejected" \/ ctrl.state = "errored"

====
